---- MODULE Spec2Model ----
(***************************************************************************)
(* State-machine model of strava.py: the scheduler loop (__main__), one    *)
(* cycle (main), the token operations (load_refresh_token,                 *)
(* save_refresh_token, refresh_access_token, reauthorize_app), the         *)
(* paginated fetch (fetch_activities) and the snapshot writes.             *)
(* The provider (token endpoint, activity-list endpoint), the operator     *)
(* typing an authorization code and the wall clock are the environment:    *)
(* their answers are drawn from small sets.                                *)
(***************************************************************************)
EXTENDS Integers, Sequences, FiniteSets, TLC

VARIABLES
    pc,             \* position of the scheduler thread
    caller,         \* who called refresh_access_token: "main" or "fetch"
    tokenFile,      \* contents of refresh_token.txt
    ACCESS_TOKEN,   \* the global ACCESS_TOKEN
    headers,        \* fetch_activities' local headers (the bearer token in it)
    refresh_token,  \* refresh_access_token's local refresh_token
    page,           \* fetch_activities' local page
    activities,     \* fetch_activities' / main's local activities
    jsonFile,       \* hiking_activities.json
    csvFile,        \* hiking_activities.csv
    issued,         \* provider: number of token pairs issued so far
    accepted,       \* provider: refresh tokens it has accepted in an exchange
    reused,         \* history: an accepted refresh token was submitted again
    last,           \* history: the last GET request of the current fetch
    refreshCalls,   \* history: calls of refresh_access_token since the last GET
    reauthCalls,    \* history: calls of reauthorize_app in the current refresh
    refreshPosts,   \* history: refresh-token POSTs in the current refresh
    refreshRet,     \* history: access token returned by the last refresh call
    fileAtCall,     \* history: refresh_token.txt when the last refresh call began
    outcome,        \* history: how the last cycle ended
    cause,          \* history: what ended the last abandoned cycle
    preJson,        \* history: hiking_activities.json when the cycle began
    preCsv,         \* history: hiking_activities.csv when the cycle began
    refreshCall,    \* history: course of the last refresh_access_token call
    pagesGot,       \* history: the non-empty pages the current fetch received
    lastCycle,      \* history: the sequence of the last cycle that wrote both files
    reply           \* the Query Service's reply, in the step that serves a request

vars == <<pc, caller, tokenFile, ACCESS_TOKEN, headers, refresh_token, page,
          activities, jsonFile, csvFile, issued, accepted, reused, last,
          refreshCalls, reauthCalls, refreshPosts, refreshRet, fileAtCall,
          outcome, cause, preJson, preCsv, refreshCall, pagesGot, lastCycle,
          reply>>

\* Everything but the reply of the step.
programVars == <<pc, caller, tokenFile, ACCESS_TOKEN, headers, refresh_token,
                 page, activities, jsonFile, csvFile, issued, accepted, reused,
                 last, refreshCalls, reauthCalls, refreshPosts, refreshRet,
                 fileAtCall, outcome, cause, preJson, preCsv, refreshCall,
                 pagesGot, lastCycle>>

----------------------------------------------------------------------------
(* Bounds of the model *)

MaxIssued == 2      \* token pairs the provider issues in one run
VariedPages == 1    \* pages on which the provider's answers vary freely
MaxReset == 2       \* largest X-RateLimit-Reset value
MaxNow == 1         \* the clock reading when a 429 arrives
MaxCount == 2       \* history counters saturate here

(* Program constants *)

max_pages == 50
FALLBACK_SLEEP == 900

----------------------------------------------------------------------------
(* Values *)

None == [kind |-> "none", n |-> 0]
AccessTok(n) == [kind |-> "access", n |-> n]
RefreshTok(n) == [kind |-> "refresh", n |-> n]

NoFile == [kind |-> "absent", n |-> 0]
EmptyFile == [kind |-> "empty", n |-> 0]

AbsentSnapshot == [st |-> "absent", data |-> <<>>]

NoHeader == [kind |-> "absent", val |-> 0]
BadHeader == [kind |-> "invalid", val |-> 0]
IntHeader(t) == [kind |-> "int", val |-> t]
ResetHeaders == {NoHeader, BadHeader} \cup {IntHeader(t) : t \in 0..MaxReset}
Clock == {MaxNow}

NoRequest == [page |-> 0, tok |-> None, resp |-> "none", hdr |-> NoHeader,
              now |-> 0, slept |-> 0, prev |-> "none", prevPage |-> 0,
              prevTok |-> None, ncalls |-> 0, ret |-> None]

NoCall == [st |-> "none", rejected |-> FALSE, by |-> "none"]
NoCycle == [done |-> FALSE, acts |-> <<>>]
NoReply == [route |-> "none", status |-> 0, body |-> <<>>, error |-> FALSE]

Bump(n) == IF n < MaxCount THEN n + 1 ELSE MaxCount
Max(a, b) == IF a > b THEN a ELSE b

----------------------------------------------------------------------------
(* Pure helpers of the program *)

\* load_refresh_token: the stripped file contents, or None without a file.
load_refresh_token(file) == IF file = NoFile THEN None ELSE file

\* Variant: the loaded token is not tested.
NoStoredTokenUnchecked(tok) == FALSE

\* `not refresh_token`: None and the empty string are both falsy.
NoStoredToken(tok) == tok = None \/ tok = EmptyFile

\* Variant: the handler names ConnectionError only.
IsRequestExceptionNarrow(e) == e = "ConnectionError"

\* The exception classes main's `except` clause catches.
IsRequestException(e) == e \in {"HTTPError", "ConnectionError"}

\* Variant: no ceiling on the loop.
LoopConditionUnbounded(p) == TRUE

\* Variant: the ceiling off by one.
LoopConditionOffByOne(p) == p < max_pages

\* `while page <= max_pages`
LoopCondition(p) == p <= max_pages

\* int(response.headers.get('X-RateLimit-Reset', 0)) for a parseable header.
ResetTime(h) == IF h.kind = "int" THEN h.val ELSE 0

\* Variant: the difference is not clamped at 0.
WaitTimeUnclamped(reset, now) == reset - now

\* max(reset_time - int(time.time()), 0)
WaitTime(reset, now) == Max(reset - now, 0)

\* Variant: time.sleep(wait_time), no fallback.
SleepTimeNoFallback(wait) == wait

\* time.sleep(wait_time or 15 * 60)
SleepTime(wait) == IF wait /= 0 THEN wait ELSE FALLBACK_SLEEP

\* Variant: the headers are not rebuilt after the refresh.
HeadersNotRebuilt(old, new) == old

\* headers = {'Authorization': f'Bearer {ACCESS_TOKEN}'} after a refresh
HeadersAfterRefresh(old, new) == new

\* Variant: the new refresh token is not saved.
SavedByRefreshSkipped(old, new) == old

\* save_refresh_token(tokens['refresh_token']) in refresh_access_token
SavedByRefresh(old, new) == new

\* Variant: the access token is what gets saved.
SavedByReauthorizeAccess(old, new) == AccessTok(new.n)

\* save_refresh_token(tokens['refresh_token']) in reauthorize_app
SavedByReauthorize(old, new) == new

\* One projected record of the list comprehension.
Project(a) == [id |-> a.id, date |-> a.start_date, type |-> a.type]

IsHike(a) == a.type = "Hike"

\* Variant: the comprehension without its `if`.
HikingActivitiesUnfiltered(data) == [i \in 1..Len(data) |-> Project(data[i])]

\* [ {...} for activity in data if activity['type'] == 'Hike' ]
HikingActivities(data) ==
    LET hikes == SelectSeq(data, IsHike)
    IN  [i \in 1..Len(hikes) |-> Project(hikes[i])]

\* One row as csv.DictWriter writes it: every field as text.
CsvRow(a) == [id |-> ToString(a.id), date |-> ToString(a.date), type |-> a.type]

\* Variant: the first record is taken for the header and skipped.
CsvRowsSkipFirst(acts) ==
    IF acts = <<>> THEN <<>> ELSE [i \in 1..(Len(acts) - 1) |-> CsvRow(acts[i + 1])]

\* writer.writerows(activities)
CsvRows(acts) == [i \in 1..Len(acts) |-> CsvRow(acts[i])]

----------------------------------------------------------------------------
(* The provider's activity list *)

PageKinds(p) == IF p <= VariedPages THEN {"mixed", "runs"} ELSE {"mixed"}

RawPage(p, kind) ==
    IF kind = "mixed"
    THEN << [id |-> 10 * p + 1, start_date |-> p, type |-> "Run"],
            [id |-> 10 * p + 2, start_date |-> p, type |-> "Hike"] >>
    ELSE << [id |-> 10 * p + 1, start_date |-> p, type |-> "Run"] >>

\* Pages on which the provider may answer 429, 401, an error status or not at all.
Misbehaves(p) == p <= VariedPages \/ p >= max_pages

\* Pages at which the provider's list may end.
MayEnd(p) == p <= VariedPages + 1 \/ p >= max_pages

----------------------------------------------------------------------------
Init ==
    /\ pc = "cycle_start"
    /\ caller = "none"
    /\ tokenFile \in {NoFile, EmptyFile, RefreshTok(0)}
    /\ ACCESS_TOKEN = None
    /\ headers = None
    /\ refresh_token = None
    /\ page = 1
    /\ activities = <<>>
    /\ jsonFile = AbsentSnapshot
    /\ csvFile = AbsentSnapshot
    /\ issued = 0
    /\ accepted = {}
    /\ reused = FALSE
    /\ last = NoRequest
    /\ refreshCalls = 0
    /\ reauthCalls = 0
    /\ refreshPosts = 0
    /\ refreshRet = None
    /\ fileAtCall = NoFile
    /\ outcome = "none"
    /\ cause = "none"
    /\ preJson = AbsentSnapshot
    /\ preCsv = AbsentSnapshot
    /\ refreshCall = NoCall
    /\ pagesGot = <<>>
    /\ lastCycle = NoCycle
    /\ reply = NoReply

----------------------------------------------------------------------------
(* Shared fragments of the actions *)

\* A call of refresh_access_token() from `who`.
CallRefresh(who, callsBefore) ==
    /\ issued < MaxIssued
    /\ pc' = "refresh_load"
    /\ caller' = who
    /\ refreshCalls' = Bump(callsBefore)
    /\ fileAtCall' = tokenFile
    /\ reauthCalls' = 0
    /\ refreshPosts' = 0
    /\ refreshCall' = [st |-> "running", rejected |-> FALSE, by |-> "none"]

\* refresh_access_token() returns tok to its caller: main goes on into
\* fetch_activities (headers, activities, page initialised), fetch_activities
\* rebuilds its headers and continues the loop.
ReturnFromRefresh(tok) ==
    /\ refreshRet' = tok
    /\ pc' = "fetch"
    /\ caller' = "none"
    /\ refresh_token' = None
    /\ IF caller = "main"
       THEN /\ headers' = tok
            /\ page' = 1
            /\ activities' = <<>>
            /\ last' = NoRequest
       ELSE /\ headers' = HeadersAfterRefresh(headers, tok)
            /\ UNCHANGED <<page, activities, last>>

\* An exception e propagates out of the cycle's calls to main's try block:
\* a RequestException is caught and printed, main returns and the loop
\* sleeps; anything else leaves main and the `while True` loop.
Raise(e, why) ==
    /\ pc' = IF IsRequestException(e) THEN "sleeping" ELSE "crashed"
    /\ outcome' = IF IsRequestException(e) THEN "caught" ELSE "escaped"
    /\ cause' = why
    /\ caller' = "none"
    /\ refresh_token' = None
    /\ headers' = None
    /\ page' = 1
    /\ activities' = <<>>
    /\ pagesGot' = <<>>

\* The GET of one loop iteration and what the history keeps of it.
Request(resp, h, now, slept) ==
    /\ last' = [page |-> page, tok |-> headers, resp |-> resp, hdr |-> h,
                now |-> now, slept |-> slept, prev |-> last.resp,
                prevPage |-> last.page, prevTok |-> last.tok,
                ncalls |-> refreshCalls,
                ret |-> refreshRet]

InLoop == pc = "fetch" /\ LoopCondition(page)

----------------------------------------------------------------------------
(* The scheduler loop and main *)

\* `while True: main()`: main enters its try block and calls
\* refresh_access_token().
MainStart ==
    /\ pc = "cycle_start"
    /\ CallRefresh("main", refreshCalls)
    /\ outcome' = "running"
    /\ cause' = "none"
    /\ preJson' = jsonFile
    /\ preCsv' = csvFile
    /\ reply' = NoReply
    /\ UNCHANGED <<tokenFile, ACCESS_TOKEN, headers, refresh_token, page,
                   activities, jsonFile, csvFile, issued, accepted, reused,
                   last, refreshRet,
                   pagesGot, lastCycle>>

\* time.sleep(RUN_INTERVAL) returns and the loop calls main() again.
Wake ==
    /\ pc = "sleeping"
    /\ issued < MaxIssued
    /\ pc' = "cycle_start"
    /\ last' = NoRequest
    /\ refreshCalls' = 0
    /\ reply' = NoReply
    /\ UNCHANGED <<caller, tokenFile, ACCESS_TOKEN, headers, refresh_token,
                   page, activities, jsonFile, csvFile, issued, accepted,
                   reused, reauthCalls, refreshPosts, refreshRet, outcome,
                   cause, preJson, preCsv,
                   fileAtCall,
                   refreshCall, pagesGot, lastCycle>>

----------------------------------------------------------------------------
(* refresh_access_token and reauthorize_app *)

\* refresh_token = load_refresh_token(); if not refresh_token: reauthorize.
RefreshLoad ==
    /\ pc = "refresh_load"
    /\ refresh_token' = load_refresh_token(tokenFile)
    /\ IF NoStoredToken(refresh_token')
       THEN pc' = "reauthorize" /\ reauthCalls' = Bump(reauthCalls)
       ELSE pc' = "refresh_post" /\ UNCHANGED reauthCalls
    /\ reply' = NoReply
    /\ UNCHANGED <<caller, tokenFile, ACCESS_TOKEN, headers, page, activities,
                   jsonFile, csvFile, issued, accepted, reused, last,
                   refreshCalls, refreshPosts, refreshRet, outcome, cause,
                   preJson, preCsv,
                   fileAtCall,
                   refreshCall, pagesGot, lastCycle>>

\* The refresh-token POST answers 200: the provider has retired the token
\* it was sent and issued a new pair.
RefreshOk ==
    /\ pc = "refresh_post"
    /\ refresh_token \notin accepted
    /\ refreshPosts' = Bump(refreshPosts)
    /\ reused' = (reused \/ refresh_token \in accepted)
    /\ issued' = issued + 1
    /\ accepted' = accepted \cup {refresh_token}
    /\ ACCESS_TOKEN' = AccessTok(issued')
    /\ tokenFile' = SavedByRefresh(tokenFile, RefreshTok(issued'))
    /\ ReturnFromRefresh(ACCESS_TOKEN')
    /\ refreshCall' = [refreshCall EXCEPT !.st = "returned", !.by = "refresh"]
    /\ reply' = NoReply
    /\ UNCHANGED <<jsonFile, csvFile, refreshCalls, reauthCalls, outcome,
                   cause, preJson, preCsv,
                   fileAtCall,
                   pagesGot, lastCycle>>

\* Variant: a rejected refresh is raised (raise_for_status) instead of
\* being handed to reauthorize_app.
RefreshRejectedRaises ==
    /\ pc = "refresh_post"
    /\ refreshPosts' = Bump(refreshPosts)
    /\ reused' = (reused \/ refresh_token \in accepted)
    /\ refreshCall' = [refreshCall EXCEPT !.rejected = TRUE, !.st = "raised"]
    /\ Raise("HTTPError", "refresh_rejected")
    /\ reply' = NoReply
    /\ UNCHANGED <<tokenFile, ACCESS_TOKEN, jsonFile, csvFile, issued,
                   accepted, last, refreshCalls, reauthCalls, refreshRet,
                   preJson, preCsv, fileAtCall, lastCycle>>

\* The refresh-token POST answers another status: reauthorize_app().
RefreshRejected ==
    /\ pc = "refresh_post"
    /\ refreshPosts' = Bump(refreshPosts)
    /\ reused' = (reused \/ refresh_token \in accepted)
    /\ pc' = "reauthorize"
    /\ reauthCalls' = Bump(reauthCalls)
    /\ refreshCall' = [refreshCall EXCEPT !.rejected = TRUE]
    /\ reply' = NoReply
    /\ UNCHANGED <<caller, tokenFile, ACCESS_TOKEN, headers, refresh_token,
                   page, activities, jsonFile, csvFile, issued, accepted,
                   last, refreshCalls, refreshRet, outcome, cause, preJson,
                   preCsv,
                   fileAtCall,
                   pagesGot, lastCycle>>

\* requests.post raises (no connection, timeout).
RefreshNetErr ==
    /\ pc = "refresh_post"
    /\ refreshPosts' = Bump(refreshPosts)
    /\ reused' = (reused \/ refresh_token \in accepted)
    /\ Raise("ConnectionError", "network")
    /\ refreshCall' = [refreshCall EXCEPT !.st = "raised"]
    /\ reply' = NoReply
    /\ UNCHANGED <<tokenFile, ACCESS_TOKEN, jsonFile, csvFile, issued,
                   accepted, last, refreshCalls, reauthCalls, refreshRet,
                   preJson, preCsv,
                   fileAtCall,
                   lastCycle>>

\* The operator enters a code and the provider accepts it.
ReauthOk ==
    /\ pc = "reauthorize"
    /\ issued' = issued + 1
    /\ ACCESS_TOKEN' = AccessTok(issued')
    /\ tokenFile' = SavedByReauthorize(tokenFile, RefreshTok(issued'))
    /\ ReturnFromRefresh(ACCESS_TOKEN')
    /\ refreshCall' = [refreshCall EXCEPT !.st = "returned", !.by = "reauthorize"]
    /\ reply' = NoReply
    /\ UNCHANGED <<jsonFile, csvFile, accepted, reused, refreshCalls,
                   reauthCalls, refreshPosts, outcome, cause, preJson, preCsv,
                   fileAtCall,
                   pagesGot, lastCycle>>

\* The provider rejects the code: response.raise_for_status() raises HTTPError.
ReauthRejected ==
    /\ pc = "reauthorize"
    /\ Raise("HTTPError", "reauth_rejected")
    /\ refreshCall' = [refreshCall EXCEPT !.st = "raised"]
    /\ reply' = NoReply
    /\ UNCHANGED <<tokenFile, ACCESS_TOKEN, jsonFile, csvFile, issued,
                   accepted, reused, last, refreshCalls, reauthCalls,
                   refreshPosts, refreshRet, preJson, preCsv,
                   fileAtCall,
                   lastCycle>>

\* requests.post raises (no connection, timeout).
ReauthNetErr ==
    /\ pc = "reauthorize"
    /\ Raise("ConnectionError", "network")
    /\ refreshCall' = [refreshCall EXCEPT !.st = "raised"]
    /\ reply' = NoReply
    /\ UNCHANGED <<tokenFile, ACCESS_TOKEN, jsonFile, csvFile, issued,
                   accepted, reused, last, refreshCalls, reauthCalls,
                   refreshPosts, refreshRet, preJson, preCsv,
                   fileAtCall,
                   lastCycle>>

----------------------------------------------------------------------------
(* fetch_activities: one action per answer to the GET of a loop iteration *)

\* 429 with a usable or absent X-RateLimit-Reset: sleep, then `continue`.
Fetch429 ==
    /\ InLoop
    /\ Misbehaves(page)
    /\ \E h \in ResetHeaders \ {BadHeader}, now \in Clock :
          Request("429", h, now, SleepTime(WaitTime(ResetTime(h), now)))
    /\ refreshCalls' = 0
    /\ reply' = NoReply
    /\ UNCHANGED <<pc, caller, tokenFile, ACCESS_TOKEN, headers, refresh_token,
                   page, activities, jsonFile, csvFile, issued, accepted,
                   reused, reauthCalls, refreshPosts, refreshRet, outcome,
                   cause, preJson, preCsv,
                   fileAtCall,
                   refreshCall, pagesGot, lastCycle>>

\* 429 whose X-RateLimit-Reset is not an integer literal: int() raises
\* ValueError before any sleep.
Fetch429BadHeader ==
    /\ InLoop
    /\ Misbehaves(page)
    /\ \E now \in Clock : Request("429", BadHeader, now, 0)
    /\ refreshCalls' = 0
    /\ Raise("ValueError", "bad_header")
    /\ reply' = NoReply
    /\ UNCHANGED <<tokenFile, ACCESS_TOKEN, jsonFile, csvFile, issued,
                   accepted, reused, reauthCalls, refreshPosts, refreshRet,
                   preJson, preCsv,
                   fileAtCall,
                   refreshCall, lastCycle>>

\* 401: ACCESS_TOKEN = refresh_access_token(); the headers are rebuilt when
\* the call returns (ReturnFromRefresh).
Fetch401 ==
    /\ InLoop
    /\ Misbehaves(page)
    /\ Request("401", NoHeader, 0, 0)
    /\ CallRefresh("fetch", 0)
    /\ reply' = NoReply
    /\ UNCHANGED <<tokenFile, ACCESS_TOKEN, headers, refresh_token, page,
                   activities, jsonFile, csvFile, issued, accepted, reused,
                   refreshRet, outcome, cause, preJson, preCsv,
                   pagesGot, lastCycle>>

\* Variant: an error status ends the loop and fetch_activities returns what
\* it has accumulated.
FetchStatusErrorKeepsPartial ==
    /\ InLoop
    /\ Misbehaves(page)
    /\ Request("error", NoHeader, 0, 0)
    /\ refreshCalls' = 0
    /\ cause' = "fetch_status"
    /\ pc' = "write_json"
    /\ reply' = NoReply
    /\ UNCHANGED <<caller, tokenFile, ACCESS_TOKEN, headers, refresh_token,
                   page, activities, jsonFile, csvFile, issued, accepted,
                   reused, reauthCalls, refreshPosts, refreshRet, fileAtCall,
                   outcome, preJson, preCsv,
                   refreshCall, pagesGot, lastCycle>>

\* Any other error status: response.raise_for_status() raises HTTPError.
FetchStatusError ==
    /\ InLoop
    /\ Misbehaves(page)
    /\ Request("error", NoHeader, 0, 0)
    /\ refreshCalls' = 0
    /\ Raise("HTTPError", "fetch_status")
    /\ reply' = NoReply
    /\ UNCHANGED <<tokenFile, ACCESS_TOKEN, jsonFile, csvFile, issued,
                   accepted, reused, reauthCalls, refreshPosts, refreshRet,
                   preJson, preCsv,
                   fileAtCall,
                   refreshCall, lastCycle>>

\* requests.get raises (no connection, timeout).
FetchNetErr ==
    /\ InLoop
    /\ Misbehaves(page)
    /\ Request("neterr", NoHeader, 0, 0)
    /\ refreshCalls' = 0
    /\ Raise("ConnectionError", "network")
    /\ reply' = NoReply
    /\ UNCHANGED <<tokenFile, ACCESS_TOKEN, jsonFile, csvFile, issued,
                   accepted, reused, reauthCalls, refreshPosts, refreshRet,
                   preJson, preCsv,
                   fileAtCall,
                   refreshCall, lastCycle>>

\* 200 with an empty list: `break`, and fetch_activities returns.
FetchEmpty ==
    /\ InLoop
    /\ MayEnd(page)
    /\ Request("empty", NoHeader, 0, 0)
    /\ refreshCalls' = 0
    /\ pc' = "write_json"
    /\ reply' = NoReply
    /\ UNCHANGED <<caller, tokenFile, ACCESS_TOKEN, headers, refresh_token,
                   page, activities, jsonFile, csvFile, issued, accepted,
                   reused, reauthCalls, refreshPosts, refreshRet, outcome,
                   cause, preJson, preCsv,
                   fileAtCall,
                   refreshCall, pagesGot, lastCycle>>

\* 200 with data: filter, project, extend, page += 1.
FetchData ==
    /\ InLoop
    /\ Request("data", NoHeader, 0, 0)
    /\ refreshCalls' = 0
    /\ \E kind \in PageKinds(page) :
          /\ activities' = activities \o HikingActivities(RawPage(page, kind))
          /\ pagesGot' = Append(pagesGot, kind)
    /\ page' = page + 1
    /\ reply' = NoReply
    /\ UNCHANGED <<pc, caller, tokenFile, ACCESS_TOKEN, headers, refresh_token,
                   jsonFile, csvFile, issued, accepted, reused, reauthCalls,
                   refreshPosts, refreshRet, outcome, cause, preJson, preCsv,
                   fileAtCall,
                   refreshCall, lastCycle>>

\* The loop condition fails: fetch_activities returns.
FetchDone ==
    /\ pc = "fetch"
    /\ ~LoopCondition(page)
    /\ pc' = "write_json"
    /\ reply' = NoReply
    /\ UNCHANGED <<caller, tokenFile, ACCESS_TOKEN, headers, refresh_token,
                   page, activities, jsonFile, csvFile, issued, accepted,
                   reused, last, refreshCalls, reauthCalls, refreshPosts,
                   refreshRet, outcome, cause, preJson, preCsv,
                   fileAtCall,
                   refreshCall, pagesGot, lastCycle>>

----------------------------------------------------------------------------
(* main: the snapshot writes and the summary *)

\* open('hiking_activities.json', 'w') creates or truncates the file.
WriteJsonOpen ==
    /\ pc = "write_json"
    /\ jsonFile' = [st |-> "partial", data |-> <<>>]
    /\ pc' = "dump_json"
    /\ headers' = None
    /\ page' = 1
    /\ last' = NoRequest
    /\ pagesGot' = <<>>
    /\ reply' = NoReply
    /\ UNCHANGED <<caller, tokenFile, ACCESS_TOKEN, refresh_token, activities,
                   csvFile, issued, accepted, reused, refreshCalls,
                   reauthCalls, refreshPosts, refreshRet, outcome, cause,
                   preJson, preCsv,
                   fileAtCall,
                   refreshCall, lastCycle>>

\* Variant: the file was opened for appending, the new list follows the old.
WriteJsonDumpAppends ==
    /\ pc = "dump_json"
    /\ jsonFile' = [st |-> "complete", data |-> preJson.data \o activities]
    /\ pc' = "write_csv"
    /\ reply' = NoReply
    /\ UNCHANGED <<caller, tokenFile, ACCESS_TOKEN, headers, refresh_token,
                   page, activities, csvFile, issued, accepted, reused, last,
                   refreshCalls, reauthCalls, refreshPosts, refreshRet,
                   outcome, cause, preJson, preCsv, fileAtCall, refreshCall,
                   pagesGot, lastCycle>>

\* Variant: the file is never flushed or closed, main goes on.
WriteJsonDumpUnflushed ==
    /\ pc = "dump_json"
    /\ pc' = "write_csv"
    /\ reply' = NoReply
    /\ UNCHANGED <<caller, tokenFile, ACCESS_TOKEN, headers, refresh_token,
                   page, activities, jsonFile, csvFile, issued, accepted,
                   reused, last, refreshCalls, reauthCalls, refreshPosts,
                   refreshRet, outcome, cause, preJson, preCsv, fileAtCall,
                   refreshCall, pagesGot, lastCycle>>

\* json.dump(activities, file, indent=4) and the close of the with block.
WriteJsonDump ==
    /\ pc = "dump_json"
    /\ jsonFile' = [st |-> "complete", data |-> activities]
    /\ pc' = "write_csv"
    /\ reply' = NoReply
    /\ UNCHANGED <<caller, tokenFile, ACCESS_TOKEN, headers, refresh_token,
                   page, activities, csvFile, issued, accepted, reused, last,
                   refreshCalls, reauthCalls, refreshPosts, refreshRet,
                   outcome, cause, preJson, preCsv,
                   fileAtCall,
                   refreshCall, pagesGot, lastCycle>>

\* write_activities_to_csv: open(filename, mode='w') creates or truncates.
WriteCsvOpen ==
    /\ pc = "write_csv"
    /\ csvFile' = [st |-> "partial", data |-> <<>>]
    /\ pc' = "csv_rows"
    /\ reply' = NoReply
    /\ UNCHANGED <<caller, tokenFile, ACCESS_TOKEN, headers, refresh_token,
                   page, activities, jsonFile, issued, accepted, reused, last,
                   refreshCalls, reauthCalls, refreshPosts, refreshRet,
                   outcome, cause, preJson, preCsv,
                   fileAtCall,
                   refreshCall, pagesGot, lastCycle>>

\* writer.writeheader(); writer.writerows(activities); close.
WriteCsvRows ==
    /\ pc = "csv_rows"
    /\ csvFile' = [st |-> "complete", data |-> CsvRows(activities)]
    /\ pc' = "log"
    /\ lastCycle' = [done |-> TRUE, acts |-> activities]
    /\ reply' = NoReply
    /\ UNCHANGED <<caller, tokenFile, ACCESS_TOKEN, headers, refresh_token,
                   page, activities, jsonFile, issued, accepted, reused, last,
                   refreshCalls, reauthCalls, refreshPosts, refreshRet,
                   outcome, cause, preJson, preCsv,
                   fileAtCall,
                   refreshCall, pagesGot>>

\* The summary is printed, main returns and the loop goes to sleep.
LogSummary ==
    /\ pc = "log"
    /\ pc' = "sleeping"
    /\ outcome' = "success"
    /\ activities' = <<>>
    /\ reply' = NoReply
    /\ UNCHANGED <<caller, tokenFile, ACCESS_TOKEN, headers, refresh_token,
                   page, jsonFile, csvFile, issued, accepted, reused, last,
                   refreshCalls, reauthCalls, refreshPosts, refreshRet, cause,
                   preJson, preCsv,
                   fileAtCall,
                   refreshCall, pagesGot, lastCycle>>

----------------------------------------------------------------------------
(* The Query Service: Flask's thread, alive as long as the process *)

\* Variant: no handler for FileNotFoundError.
RawReplyUnhandled(file) ==
    IF file.st = "complete"
    THEN [route |-> "raw", status |-> 200, body |-> file.data, error |-> FALSE]
    ELSE [route |-> "raw", status |-> 500, body |-> <<>>, error |-> FALSE]

\* get_raw_activities: 404 with an error body without the file; json.load
\* raises JSONDecodeError on a file that is not complete JSON, which nothing
\* catches, and Flask answers 500; otherwise 200 with the parsed list.
RawReply(file) ==
    IF file.st = "absent"
    THEN [route |-> "raw", status |-> 404, body |-> <<>>, error |-> TRUE]
    ELSE IF file.st = "partial"
    THEN [route |-> "raw", status |-> 500, body |-> <<>>, error |-> FALSE]
    ELSE [route |-> "raw", status |-> 200, body |-> file.data, error |-> FALSE]

\* get_activities: 404 with an error body without the file; otherwise 200
\* with the rows csv.DictReader finds in it (none in a truncated file).
ActivitiesReply(file) ==
    IF file.st = "absent"
    THEN [route |-> "activities", status |-> 404, body |-> <<>>, error |-> TRUE]
    ELSE [route |-> "activities", status |-> 200, body |-> file.data,
          error |-> FALSE]

Alive == pc /= "crashed"

\* Variant: the handler opens the file for update and so creates it.
GetRawActivitiesCreatesFile ==
    /\ Alive
    /\ reply' = RawReply(jsonFile)
    /\ jsonFile' = IF jsonFile.st = "absent"
                   THEN [st |-> "partial", data |-> <<>>]
                   ELSE jsonFile
    /\ UNCHANGED <<pc, caller, tokenFile, ACCESS_TOKEN, headers, refresh_token,
                   page, activities, csvFile, issued, accepted, reused, last,
                   refreshCalls, reauthCalls, refreshPosts, refreshRet,
                   fileAtCall, outcome, cause, preJson, preCsv, refreshCall,
                   pagesGot, lastCycle>>

\* GET /raw-activities
GetRawActivities ==
    /\ Alive
    /\ reply' = RawReply(jsonFile)
    /\ UNCHANGED programVars

\* GET /activities
GetActivities ==
    /\ Alive
    /\ reply' = ActivitiesReply(csvFile)
    /\ UNCHANGED programVars

----------------------------------------------------------------------------
Scheduler ==
    \/ MainStart
    \/ Wake
    \/ RefreshLoad
    \/ RefreshOk
    \/ RefreshRejected
    \/ RefreshNetErr
    \/ ReauthOk
    \/ ReauthRejected
    \/ ReauthNetErr
    \/ Fetch429
    \/ Fetch429BadHeader
    \/ Fetch401
    \/ FetchStatusError
    \/ FetchNetErr
    \/ FetchEmpty
    \/ FetchData
    \/ FetchDone
    \/ WriteJsonOpen
    \/ WriteJsonDump
    \/ WriteCsvOpen
    \/ WriteCsvRows
    \/ LogSummary

Next ==
    \/ Scheduler
    \/ GetRawActivities
    \/ GetActivities

Spec == Init /\ [][Next]_vars

\* The scheduler is one sequential thread: whenever it has a next step it
\* takes one. Requests to the Query Service arrive or not.
FairSpec == Spec /\ WF_vars(Scheduler)

----------------------------------------------------------------------------
(* Properties *)

NetworkCauses == {"network", "fetch_status", "reauth_rejected"}

\* fetch_activities is on the stack (running, or waiting for a refresh it called).
InFetch == pc = "fetch" \/ caller = "fetch"

CycleEnded == outcome \in {"success", "caught", "escaped"}

\* C1: a cycle ended by a network-layer exception (a failed request, an
\* error status on any page, a rejected exchange) leaves both snapshot files
\* exactly as they were when the cycle began; nothing accumulated is written.
C1_FailedCycleWritesNothing ==
    cause \in NetworkCauses =>
        /\ jsonFile = preJson
        /\ csvFile = preCsv
        /\ activities = <<>>
        /\ pc \in {"sleeping", "cycle_start"}

\* An error status on the last page, after 49 pages of records were
\* accumulated, with an earlier cycle's snapshot on disk.
C1_Witness ==
    /\ cause = "fetch_status"
    /\ last.page = max_pages
    /\ pc = "sleeping"
    /\ jsonFile.st = "complete"
    /\ Len(jsonFile.data) > 0

\* C2 (as claimed): every cycle that ends leaves the loop in Sleeping or
\* starting the next cycle; the loop has no terminal state.
C2_EveryCycleEndsInSleeping ==
    CycleEnded => pc \in {"sleeping", "cycle_start"}

\* C3 (as claimed): a rejected authorization-code exchange escapes the cycle,
\* and it is the only failure that does.
C3_OnlyRejectedReauthEscapes ==
    (outcome = "escaped") <=> (cause = "reauth_rejected")

\* C3 (amended): a rejected authorization-code exchange is caught by main
\* like any other request failure: the cycle is abandoned with both
\* snapshots untouched and the loop goes to sleep.
C3_RejectedReauthIsCaught ==
    cause = "reauth_rejected" =>
        /\ outcome = "caught"
        /\ pc \in {"sleeping", "cycle_start"}
        /\ jsonFile = preJson
        /\ csvFile = preCsv

\* The exchange was rejected inside a refresh that fetch called after a 401.
C3_Witness ==
    /\ cause = "reauth_rejected"
    /\ pc = "sleeping"
    /\ last.resp = "401"

C5_PaginationStops ==
    /\ last.resp /= "none" => last.page \in 1..max_pages
    /\ (last.resp /= "none" /\ last.prev = "none") => last.page = 1
    /\ last.prev \in {"429", "401"} => last.page = last.prevPage
    /\ last.prev = "data" => last.page = last.prevPage + 1
    /\ last.prev \in {"none", "429", "401", "data"}
    /\ pc = "write_json" =>
          \/ last.resp = "empty"
          \/ last.resp = "data" /\ last.page = max_pages /\ page = max_pages + 1
    /\ InFetch => last.resp /= "empty"
    /\ (pc = "fetch" /\ last.resp = "data") => page = last.page + 1

\* fetch returned because page 50 was processed.
C5_Witness ==
    /\ pc = "write_json"
    /\ last.resp = "data"
    /\ page = max_pages + 1

\* C6 (as claimed): a 429 with X-RateLimit-Reset = T is followed by a sleep
\* of max(T - now, 0) seconds.
C6_SleepsMaxOfDifferenceAndZero ==
    (last.resp = "429" /\ last.hdr.kind = "int") =>
        last.slept = Max(last.hdr.val - last.now, 0)

\* C6 (amended): the sleep is T - now when T > now and the fixed 900
\* seconds when T <= now; the same page is then requested again.
C6_SleepsDifferenceOrFallback ==
    /\ (last.resp = "429" /\ last.hdr.kind = "int") =>
          /\ last.slept = IF last.hdr.val > last.now
                          THEN last.hdr.val - last.now
                          ELSE FALLBACK_SLEEP
          /\ pc = "fetch"
          /\ page = last.page
    /\ last.prev = "429" => last.page = last.prevPage

\* A page answered 429 with T <= now right after a 429 for the same page.
C6_Witness ==
    /\ last.resp = "429"
    /\ last.prev = "429"
    /\ last.hdr.kind = "int"
    /\ last.hdr.val <= last.now

\* C7 (as claimed): a 429 whose reset header is absent or invalid makes
\* fetch sleep the fallback duration and retry the page; the cycle goes on.
C7_UnusableHeaderFallsBack ==
    (last.resp = "429" /\ last.hdr.kind \in {"absent", "invalid"}) =>
        /\ last.slept = FALLBACK_SLEEP
        /\ pc = "fetch"
        /\ page = last.page
        /\ outcome = "running"

\* C8: the request after a 401 is for the same page, follows exactly one
\* call of refresh, and carries the access token that call returned, which
\* is not the token of the rejected request.
C8_RetryAfter401UsesNewToken ==
    /\ last.prev = "401" =>
          /\ last.page = last.prevPage
          /\ last.ncalls = 1
          /\ last.tok = last.ret
          /\ last.tok.kind = "access"
          /\ last.tok /= last.prevTok
    /\ (last.resp = "401" /\ pc = "fetch") =>
          /\ refreshCalls = 1
          /\ headers = refreshRet
          /\ headers /= last.tok
          /\ page = last.page

\* A page answered 401 and then, retried, answered with data.
C8_Witness ==
    /\ last.prev = "401"
    /\ last.resp = "data"
    /\ last.page = max_pages

\* C9: a refresh call that found no stored refresh token (no file, or an
\* empty one) calls reauthorize once and posts no refresh-token exchange.
C9_NoStoredTokenReauthorizesOnce ==
    (fileAtCall \in {NoFile, EmptyFile} /\ pc /= "refresh_load"
         /\ outcome /= "none") =>
        /\ refreshPosts = 0
        /\ reauthCalls = 1

\* A refresh without a token file that returned through reauthorize.
C9_Witness ==
    /\ fileAtCall = NoFile
    /\ pc = "fetch"
    /\ reauthCalls = 1
    /\ refreshRet = AccessTok(1)

\* C10: no refresh token the provider accepted is submitted again; once a
\* pair was issued the token file holds the newest refresh token, and an
\* exchange about to be posted carries exactly that token.
C10_AcceptedTokenNeverReused ==
    /\ ~reused
    /\ issued > 0 => tokenFile = RefreshTok(issued)
    /\ pc = "refresh_post" =>
          /\ refresh_token = tokenFile
          /\ refresh_token \notin accepted

\* One exchange was accepted and issued a pair, and the next exchange is
\* about to be posted with the refresh token of that pair.
C10_Witness ==
    /\ accepted = {RefreshTok(0)}
    /\ issued = 1
    /\ pc = "refresh_post"
    /\ refresh_token = RefreshTok(1)

\* C11: when the refresh-token POST is answered with a non-success status,
\* refresh hands over to reauthorize exactly once; what the call returns
\* and stores is what reauthorize obtained, and if the call fails it is
\* reauthorize that failed.
C11_RejectedRefreshDelegates ==
    refreshCall.rejected =>
        /\ refreshPosts = 1
        /\ reauthCalls = 1
        /\ refreshCall.st = "running" => pc = "reauthorize"
        /\ refreshCall.st = "returned" =>
              /\ refreshCall.by = "reauthorize"
              /\ refreshRet = AccessTok(issued)
              /\ ACCESS_TOKEN = refreshRet
              /\ tokenFile = RefreshTok(issued)
        /\ refreshCall.st = "raised" => cause \in {"reauth_rejected", "network"}

\* A refresh called by fetch was rejected and returned through reauthorize.
C11_Witness ==
    /\ refreshCall.rejected
    /\ refreshCall.st = "returned"
    /\ last.resp = "401"
    /\ pc = "fetch"

ActivityFields == {"id", "date", "type"}

\* C12: the token file never holds an access token, the snapshot files
\* hold activity records and nothing else, and once a pair was issued the
\* token file holds the refresh token of the newest pair.
C12_TokensWhereTheyBelong ==
    /\ tokenFile.kind \in {"absent", "empty", "refresh"}
    /\ tokenFile /= ACCESS_TOKEN
    /\ \A i \in 1..Len(jsonFile.data) : DOMAIN jsonFile.data[i] = ActivityFields
    /\ \A i \in 1..Len(csvFile.data) : DOMAIN csvFile.data[i] = ActivityFields
    /\ refreshCall.st = "returned" =>
          /\ tokenFile = RefreshTok(issued)
          /\ ACCESS_TOKEN = AccessTok(issued)

\* All three files were written, the tokens coming from reauthorize.
C12_Witness ==
    /\ refreshCall.by = "reauthorize"
    /\ tokenFile = RefreshTok(1)
    /\ csvFile.st = "complete"
    /\ Len(jsonFile.data) > 0

\* C13 (as claimed): GET /raw-activities answers 200 or 404 and nothing
\* else, 404 exactly when the file is absent.
C13_RawAnswers200Or404 ==
    reply.route = "raw" =>
        /\ reply.status \in {200, 404}
        /\ reply.status = 404 <=> jsonFile.st = "absent"

\* C13 (amended): 404 with an error body exactly when the file is absent,
\* 200 with the snapshot exactly when the file holds a complete one, and
\* 500 exactly when it is served between the truncation of the file and
\* the end of json.dump.
C13_RawAnswersByFileState ==
    reply.route = "raw" =>
        /\ reply.status \in {200, 404, 500}
        /\ reply.status = 404 <=> jsonFile.st = "absent"
        /\ reply.status = 404 => reply.error
        /\ reply.status = 200 <=> jsonFile.st = "complete"
        /\ reply.status = 200 => reply.body = jsonFile.data /\ ~reply.error
        /\ reply.status = 500 <=> pc = "dump_json"

\* A request served while the second cycle rewrites the file.
C13_Witness ==
    /\ reply.route = "raw"
    /\ reply.status = 500
    /\ preJson.st = "complete"

\* The rows are the records, field by field, as text.
RowsDescribe(rows, acts) ==
    /\ Len(rows) = Len(acts)
    /\ \A i \in 1..Len(acts) :
          /\ rows[i].id = ToString(acts[i].id)
          /\ rows[i].date = ToString(acts[i].date)
          /\ rows[i].type = acts[i].type

Writing == pc \in {"dump_json", "write_csv", "csv_rows"}

\* C14: once a cycle has written both files and while no cycle is writing,
\* GET /raw-activities answers exactly that cycle's sequence and
\* GET /activities one row per record of it; nothing older survives.
C14_SnapshotIsLastCycle ==
    (lastCycle.done /\ ~Writing) =>
        /\ jsonFile = [st |-> "complete", data |-> lastCycle.acts]
        /\ reply.route = "raw" =>
              reply.status = 200 /\ reply.body = lastCycle.acts
        /\ reply.route = "activities" =>
              reply.status = 200 /\ RowsDescribe(reply.body, lastCycle.acts)

\* A request after a second cycle replaced a longer snapshot by a shorter one.
C14_Witness ==
    /\ reply.route = "raw"
    /\ pc = "sleeping"
    /\ outcome = "success"
    /\ Len(preJson.data) > Len(reply.body)
    /\ Len(reply.body) > 0

\* C15: a step that serves a request changes neither snapshot file, nor
\* the token file, nor the access token.
C15_QueryServiceIsReadOnly ==
    [][reply' /= NoReply =>
          UNCHANGED <<jsonFile, csvFile, tokenFile, ACCESS_TOKEN>>]_vars

\* A request served in the middle of a fetch, before any snapshot exists.
C15_Witness ==
    /\ reply.route = "raw"
    /\ reply.status = 404
    /\ pc = "fetch"
    /\ page > 1

RECURSIVE KeepHikes(_)
KeepHikes(raw) ==
    IF raw = <<>>
    THEN <<>>
    ELSE LET a == Head(raw)
         IN  (IF a.type = "Hike"
              THEN << [id |-> a.id, date |-> a.start_date, type |-> "Hike"] >>
              ELSE <<>>) \o KeepHikes(Tail(raw))

RECURSIVE HikesOfPages(_, _)
HikesOfPages(kinds, n) ==
    IF n = 0
    THEN <<>>
    ELSE HikesOfPages(kinds, n - 1) \o KeepHikes(RawPage(n, kinds[n]))

\* C16: fetch has received one non-empty page per page it advanced, and
\* what it returns is the Hike records of those pages, in page order, each
\* once.
C16_FetchedIsHikesInPageOrder ==
    /\ (pc \in {"fetch", "write_json"} \/ caller = "fetch") =>
          Len(pagesGot) = page - 1
    /\ pc = "write_json" =>
          /\ activities = HikesOfPages(pagesGot, Len(pagesGot))
          /\ \A i \in 1..Len(activities) : activities[i].type = "Hike"
          /\ \A i \in 1..(Len(activities) - 1) :
                activities[i].id < activities[i + 1].id

\* Page 50 was answered 429, then, retried, with data, and fetch returned.
C16_Witness ==
    /\ pc = "write_json"
    /\ last.resp = "data"
    /\ last.prev = "429"
    /\ last.page = max_pages
    /\ Len(activities) >= max_pages - 1

\* C17: a reply built from an incompletely written file is possible, and
\* only while the cycle is between opening that file and closing it.
C17_PartialSeenOnlyDuringWrite ==
    /\ (reply.route = "raw" /\ jsonFile.st = "partial") =>
          pc = "dump_json" /\ reply.status = 500
    /\ (reply.route = "activities" /\ csvFile.st = "partial") =>
          pc = "csv_rows" /\ reply.body = <<>>

\* GET /activities read the truncated CSV file: its reply has neither the
\* rows of the previous snapshot nor those of the one being written.
C17_Witness ==
    /\ reply.route = "activities"
    /\ reply.status = 200
    /\ csvFile.st = "partial"
    /\ reply.body = <<>>
    /\ Len(preCsv.data) > 0
    /\ Len(activities) > 0

SnapshotsAgree ==
    \/ jsonFile = AbsentSnapshot /\ csvFile = AbsentSnapshot
    \/ /\ jsonFile.st = "complete"
       /\ csvFile.st = "complete"
       /\ RowsDescribe(csvFile.data, jsonFile.data)
       /\ lastCycle.done
       /\ jsonFile.data = lastCycle.acts

\* C18: while the loop sleeps both snapshots are absent or both hold the
\* records of the last cycle that wrote them; they disagree only between
\* the opening of the JSON file and the end of the CSV write.
C18_SnapshotsAgreeWhenSleeping ==
    /\ pc = "sleeping" => SnapshotsAgree
    /\ ~SnapshotsAgree => Writing

\* Sleeping after a second successful cycle.
C18_Witness ==
    /\ pc = "sleeping"
    /\ outcome = "success"
    /\ preJson.st = "complete"
    /\ Len(jsonFile.data) > 0

\* C19: when fetch goes on to retry after a 429 it has slept a strictly
\* positive time: T - now if that is positive (T = 0 without the header),
\* the fixed 900 seconds otherwise.
C19_RetryAfter429SleepsFirst ==
    (last.resp = "429" /\ pc = "fetch") =>
        LET t == IF last.hdr.kind = "int" THEN last.hdr.val ELSE 0
        IN  /\ last.slept > 0
            /\ last.slept = IF t - last.now > 0 THEN t - last.now
                            ELSE FALLBACK_SLEEP

\* A 429 without the header, right after a 429 for the same page.
C19_Witness ==
    /\ last.resp = "429"
    /\ last.prev = "429"
    /\ last.hdr = NoHeader
    /\ last.slept = FALLBACK_SLEEP
    /\ pc = "fetch"

====
